---------------------------- MODULE Spec2Model ----------------------------
(***************************************************************************)
(* A model of the internship recommender: the ranking engine               *)
(* (recommender/engine.py), the two API views (recommender/views.py) and   *)
(* the offline index build script (create_faiss_index.py).                 *)
(*                                                                         *)
(* Strings are sequences of one-character strings, so that split, strip,  *)
(* lower and substring containment are computed as Python computes them.   *)
(* Scores are exact fractions [num, den] (den > 0, reduced): similarities  *)
(* are given in hundredths.                                                *)
(***************************************************************************)
EXTENDS Integers, Sequences, FiniteSets, TLC

VARIABLES
    \* ---- the loaded engine (RecommendationEngine.__init__) ----
    index_to_id_map,      \* position (0-based) -> internship id
    all_internships_map,  \* internship id -> row of the CSV
    embed_profile,        \* query text -> similarity profile of the model+index
    tie_order,            \* order in which the index returns equal similarities
    \* ---- the Django cache and the last recommend request handled ----
    cache,                \* cache key -> cached response body
    request,              \* the last request's query parameters
    response,             \* the response returned for it
    engine_called,        \* whether the handler called find_recommendations
    cache_read,           \* whether the handler called cache.get
    cache_written,        \* whether the handler called cache.set
    engine_result,        \* what find_recommendations returned (or that it raised)
    \* ---- a direct call of the skill boost computation ----
    boost_input,          \* the user's skills string and a listing's skills string
    boost_output,         \* normalized_boost, once computed
    \* ---- the index build script and the artifact files ----
    dataset,              \* what internships.csv holds for the running build
    build_pc,             \* the script's position
    build_version,        \* number of the running (or last) build
    index_file,           \* ml_assets/internships.faiss
    map_file,             \* ml_assets/index_to_id.pkl
    \* ---- the analytics request ----
    analytics_request,    \* the last request's query parameters
    analytics_env,        \* how the external services behave
    analytics_response    \* the response returned for it

recVars == <<index_to_id_map, all_internships_map, embed_profile, tie_order,
             cache, request, response, engine_called, cache_read,
             cache_written, engine_result>>

boostVars == <<boost_input, boost_output>>

buildVars == <<dataset, build_pc, build_version, index_file, map_file>>

analyticsVars == <<analytics_request, analytics_env, analytics_response>>

vars == <<recVars, boostVars, buildVars, analyticsVars>>

-----------------------------------------------------------------------------
(* Python string operations *)

Whitespace == {" "}

ToLower == ("A" :> "a") @@ ("B" :> "b") @@ ("C" :> "c")

lower(s) == [i \in 1..Len(s) |-> IF s[i] \in DOMAIN ToLower THEN ToLower[s[i]] ELSE s[i]]

RECURSIVE lstrip(_)
lstrip(s) == IF s # <<>> /\ Head(s) \in Whitespace THEN lstrip(Tail(s)) ELSE s

RECURSIVE rstrip(_)
rstrip(s) ==
    IF s # <<>> /\ s[Len(s)] \in Whitespace THEN rstrip(SubSeq(s, 1, Len(s) - 1)) ELSE s

strip(s) == rstrip(lstrip(s))

RECURSIVE split(_, _)
split(s, sep) ==
    IF \E i \in 1..Len(s) : s[i] = sep
    THEN LET i == CHOOSE j \in 1..Len(s) :
                      s[j] = sep /\ \A k \in 1..(j - 1) : s[k] # sep
         IN  <<SubSeq(s, 1, i - 1)>> \o split(SubSeq(s, i + 1, Len(s)), sep)
    ELSE <<s>>

\* Python's `sub in s` on strings
contains(sub, s) ==
    \E i \in 0..(Len(s) - Len(sub)) : SubSeq(s, i + 1, i + Len(sub)) = sub

-----------------------------------------------------------------------------
(* Exact fractions *)

RECURSIVE GCD(_, _)
GCD(a, b) == IF b = 0 THEN a ELSE GCD(b, a % b)

Frac(n, d) == LET g == GCD(IF n < 0 THEN -n ELSE n, d)
              IN  [num |-> n \div g, den |-> d \div g]

FracGE(x, y) == x.num * y.den >= y.num * x.den

FracGT(x, y) == x.num * y.den > y.num * x.den

-----------------------------------------------------------------------------
(* The corpus and the embedding model + vector index, as black boxes *)

MaxCorpus == 7

\* Row of internships.csv at position i (0-based): most rows are in city c,
\* some in city d; stored locations and skills come in mixed case and with
\* surrounding whitespace.
CsvRow(i) ==
    [id        |-> ToString(i + 1),
     Locations |-> IF i % 5 = 2 THEN <<"d">>
                   ELSE IF i % 2 = 1 THEN <<" ", "C", " ">> ELSE <<"c">>,
     Skills    |-> IF i % 4 = 2 THEN <<"b">>
                   ELSE IF i % 2 = 1 THEN <<"A", ",", " ", "B">> ELSE <<"a", ",", "b">>]

\* The query text synthesized from the user's inputs
StudentText(skills, interest) ==
    IF interest # <<>>
    THEN <<"A student with key skills in: {skills}. They are interested in an internship where they can {interest}.",
           skills, interest>>
    ELSE <<"A student with key skills in: {skills}.", skills, <<>>>>

ProfileNames == {"low", "mixed"}

\* Cosine similarity (in hundredths) of the query text to the vector at pos
Similarity(text, pos) ==
    CASE embed_profile[text] = "low"   -> 40
      [] embed_profile[text] = "mixed" -> IF pos % 2 = 0 THEN 90 ELSE 40

\* index.search(embedding, k): the k most similar positions, most similar
\* first, padded with position -1 when the index holds fewer than k vectors.
IndexSearch(text, k) ==
    LET n     == Cardinality(DOMAIN index_to_id_map)
        scan  == [i \in 1..n |-> IF tie_order = "asc" THEN i - 1 ELSE n - i]
        found == SelectSeq(scan, LAMBDA p : Similarity(text, p) = 90)
                 \o SelectSeq(scan, LAMBDA p : Similarity(text, p) = 40)
    IN  [i \in 1..k |->
            IF i <= Len(found)
            THEN [idx |-> found[i], dist |-> Similarity(text, found[i])]
            ELSE [idx |-> -1, dist |-> -1]]

-----------------------------------------------------------------------------
(* RecommendationEngine.find_recommendations *)

K == 200

UserExplicitSkills(skills) ==
    LET parts == split(skills, ",")
    IN  [i \in 1..Len(parts) |-> lower(strip(parts[i]))]

\* one point for each of the user's skills found in the listing's skills
SkillBoostScore(user_explicit_skills, internship_skills_text) ==
    Cardinality({i \in 1..Len(user_explicit_skills) :
                    contains(user_explicit_skills[i], internship_skills_text)})

NormalizedBoost(skills, internship_skills) ==
    LET user_explicit_skills == UserExplicitSkills(skills)
        skill_boost_score    == SkillBoostScore(user_explicit_skills,
                                                lower(internship_skills))
    IN  IF Len(user_explicit_skills) # 0
        THEN Frac(skill_boost_score, Len(user_explicit_skills))
        ELSE Frac(0, 1)

\* (0.7 * sem_score) + (0.3 * normalized_boost), sem_score in hundredths
FinalScore(sem_score, normalized_boost) ==
    Frac(7 * sem_score * normalized_boost.den + 300 * normalized_boost.num,
         1000 * normalized_boost.den)

\* variant of SortInsert: an ascending sort that is then reversed, which
\* puts rec before the elements of equal key
SortInsert_Reversed(sorted, rec) ==
    LET notgreater == {i \in 1..Len(sorted) : FracGE(rec.final_score, sorted[i].final_score)}
        at         == IF notgreater = {} THEN Len(sorted) + 1
                      ELSE CHOOSE i \in notgreater : \A j \in notgreater : i <= j
    IN  SubSeq(sorted, 1, at - 1) \o <<rec>> \o SubSeq(sorted, at, Len(sorted))

\* where list.sort(reverse=True) puts rec among the already sorted ones:
\* before the first element with a strictly smaller key (the sort is stable)
SortInsert(sorted, rec) ==
    LET smaller == {i \in 1..Len(sorted) : FracGT(rec.final_score, sorted[i].final_score)}
        at      == IF smaller = {} THEN Len(sorted) + 1
                   ELSE CHOOSE i \in smaller : \A j \in smaller : i <= j
    IN  SubSeq(sorted, 1, at - 1) \o <<rec>> \o SubSeq(sorted, at, Len(sorted))

\* all_top_candidates.sort(key=final_score, reverse=True)
RECURSIVE SortByFinalScore(_)
SortByFinalScore(cands) ==
    IF cands = <<>> THEN <<>>
    ELSE SortInsert(SortByFinalScore(SubSeq(cands, 1, Len(cands) - 1)),
                    cands[Len(cands)])

\* rec['internship']['Locations'].lower().strip() == location.lower()
LocationMatches(stored, location) == strip(lower(stored)) = lower(location)

FilterByLocation(cands, location) ==
    SelectSeq(cands, LAMBDA rec : LocationMatches(rec.internship.Locations, location))

\* positions the index returned, the -1 sentinels skipped
ValidHits(hits) == SelectSeq(hits, LAMBDA h : h.idx # -1)

\* self.index_to_id_map[idx] or self.all_internships_map[internship_id]
\* raises KeyError
LookupRaises(hits) ==
    \E i \in 1..Len(hits) :
        \/ hits[i].idx \notin DOMAIN index_to_id_map
        \/ index_to_id_map[hits[i].idx] \notin DOMAIN all_internships_map

Hydrate(hits, skills) ==
    [i \in 1..Len(hits) |->
        LET internship == all_internships_map[index_to_id_map[hits[i].idx]]
        IN  [final_score |-> FinalScore(hits[i].dist,
                                        NormalizedBoost(skills, internship.Skills)),
             internship  |-> internship]]

\* variant of find_recommendations: looks the row up with .get() and skips
\* a position whose row is missing
find_recommendations_SkipMissing(skills, location, interest) ==
    LET hits  == ValidHits(IndexSearch(StudentText(skills, interest), K))
        known == SelectSeq(hits, LAMBDA h :
                     /\ h.idx \in DOMAIN index_to_id_map
                     /\ index_to_id_map[h.idx] \in DOMAIN all_internships_map)
        all_top_candidates == SortByFinalScore(Hydrate(known, skills))
    IN  [raised      |-> FALSE,
         in_location |-> FilterByLocation(all_top_candidates, location),
         global      |-> all_top_candidates]

find_recommendations(skills, location, interest) ==
    LET hits == ValidHits(IndexSearch(StudentText(skills, interest), K))
    IN  IF LookupRaises(hits)
        THEN [raised |-> TRUE, in_location |-> <<>>, global |-> <<>>]
        ELSE LET all_top_candidates == SortByFinalScore(Hydrate(hits, skills))
             IN  [raised      |-> FALSE,
                  in_location |-> FilterByLocation(all_top_candidates, location),
                  global      |-> all_top_candidates]

-----------------------------------------------------------------------------
(* RecommendInternships.get *)

MINIMUM_SCORE_THRESHOLD == Frac(55, 100)

FALLBACK_COUNT == 3

Take(seq, n) == SubSeq(seq, 1, IF Len(seq) < n THEN Len(seq) ELSE n)

Good(recs) ==
    SelectSeq(recs, LAMBDA rec : FracGE(rec.final_score, MINIMUM_SCORE_THRESHOLD))

\* variant of SelectResults: without the last tier
SelectResults_NoClosestTier(in_location_recs, global_recs, location) ==
    LET good_in_location == Good(in_location_recs)
        good_global      == Good(global_recs)
    IN  IF good_in_location # <<>>
        THEN [message         |-> <<"Top matches in your preferred location: ", location>>,
              recommendations |-> Take(good_in_location, 5)]
        ELSE [message         |-> <<"No ideal matches found in {location}. Here are the best matches from other locations:", location>>,
              recommendations |-> Take(good_global, FALLBACK_COUNT)]

\* the three-tier fallback: the response body for the engine's two lists
SelectResults(in_location_recs, global_recs, location) ==
    LET good_in_location == Good(in_location_recs)
        good_global      == Good(global_recs)
    IN  IF good_in_location # <<>>
        THEN [message         |-> <<"Top matches in your preferred location: ", location>>,
              recommendations |-> Take(good_in_location, 5)]
        ELSE IF good_global # <<>>
        THEN [message         |-> <<"No ideal matches found in {location}. Here are the best matches from other locations:", location>>,
              recommendations |-> Take(good_global, FALLBACK_COUNT)]
        ELSE [message         |-> <<"No ideal matches were found anywhere. Here are the top {FALLBACK_COUNT} closest skill matches from all locations:", <<>>>>,
              recommendations |-> Take(global_recs, FALLBACK_COUNT)]

\* f"rec_{skills}_{location}_{interest}"
CacheKey(skills, location, interest) ==
    <<"r", "e", "c", "_">> \o skills \o <<"_">> \o location \o <<"_">> \o interest

\* cache.get(key) returns an entry (a non-empty dict, so truthy) and not None
CacheHit(key) == key \in DOMAIN cache

\* cache.set(key, value)
CacheSet(key, value) ==
    [k \in DOMAIN cache \cup {key} |-> IF k = key THEN value ELSE cache[k]]

\* variant of MissingParameter: only skills is required
MissingParameter_SkillsOnly(skills, location) == skills = <<>>

\* not skills or not location
MissingParameter(skills, location) == skills = <<>> \/ location = <<>>

NoResult == [raised |-> FALSE, in_location |-> <<>>, global |-> <<>>]

RecommendGet(skills, location, interest) ==
    /\ request' = [skills |-> skills, location |-> location, interest |-> interest]
    /\ IF MissingParameter(skills, location)
       THEN /\ response' = [status |-> 400,
                            body   |-> [error |-> "Please provide both 'skills' and 'location' parameters."]]
            /\ cache_read' = FALSE
            /\ engine_called' = FALSE
            /\ cache_written' = FALSE
            /\ engine_result' = NoResult
            /\ UNCHANGED cache
       ELSE LET cache_key     == CacheKey(skills, location, interest)
            IN  /\ cache_read' = TRUE
                /\ IF CacheHit(cache_key)
                   THEN /\ response' = [status |-> 200, body |-> cache[cache_key]]
                        /\ engine_called' = FALSE
                        /\ cache_written' = FALSE
                        /\ engine_result' = NoResult
                        /\ UNCHANGED cache
                   ELSE \E res \in {find_recommendations(skills, location, interest)} :
                            /\ engine_called' = TRUE
                            /\ engine_result' = res
                            /\ IF res.raised
                               THEN \* the KeyError propagates out of the view
                                    /\ response' = [status |-> 500,
                                                    body   |-> [error |-> "KeyError"]]
                                    /\ cache_written' = FALSE
                                    /\ UNCHANGED cache
                               ELSE LET final_response_data ==
                                            SelectResults(res.in_location, res.global, location)
                                    IN  /\ cache' = CacheSet(cache_key, final_response_data)
                                        /\ cache_written' = TRUE
                                        /\ response' = [status |-> 200,
                                                        body   |-> final_response_data]
    /\ UNCHANGED <<index_to_id_map, all_internships_map, embed_profile, tie_order>>
    /\ UNCHANGED <<boostVars, buildVars, analyticsVars>>

\* an entry set with timeout=3600 expires
CacheExpire(key) ==
    /\ key \in DOMAIN cache
    /\ cache' = [k \in DOMAIN cache \ {key} |-> cache[k]]
    /\ UNCHANGED <<index_to_id_map, all_internships_map, embed_profile, tie_order,
                   request, response, engine_called, cache_read, cache_written,
                   engine_result>>
    /\ UNCHANGED <<boostVars, buildVars, analyticsVars>>

\* the query parameters the requests are drawn from
RequestInputs ==
    { [skills |-> <<>>,              location |-> <<"c">>,           interest |-> <<>>],
      [skills |-> <<"a">>,           location |-> <<>>,              interest |-> <<>>],
      [skills |-> <<"a">>,           location |-> <<"c">>,           interest |-> <<>>],
      [skills |-> <<"a">>,           location |-> <<" ", "C", " ">>, interest |-> <<>>],
      [skills |-> <<"a">>,           location |-> <<"b", "_", "c">>, interest |-> <<>>],
      [skills |-> <<"a", "_", "b">>, location |-> <<"c">>,           interest |-> <<>>],
      [skills |-> <<"a">>,           location |-> <<"c">>,           interest |-> <<"x">>] }

QueryTexts ==
    {StudentText(r.skills, r.interest) :
        r \in {q \in RequestInputs : ~MissingParameter(q.skills, q.location)}}

NoRequest == [skills |-> <<>>, location |-> <<>>, interest |-> <<>>]

NoResponse == [status |-> 0, body |-> [error |-> "no request yet"]]

\* the engine as loaded at startup: n rows indexed; a stale corpus lacks the
\* row of position 0
EngineLoaded(n, stale) ==
    /\ index_to_id_map = [i \in 0..(n - 1) |-> CsvRow(i).id]
    /\ all_internships_map =
           [id \in {CsvRow(i).id : i \in (IF stale THEN 1 ELSE 0)..(n - 1)} |->
               CsvRow(CHOOSE i \in 0..(n - 1) : CsvRow(i).id = id)]

\* no recommend request handled yet
NoRecommendYet ==
    /\ cache = << >>
    /\ request = NoRequest
    /\ response = NoResponse
    /\ engine_called = FALSE
    /\ cache_read = FALSE
    /\ cache_written = FALSE
    /\ engine_result = NoResult

NoBoostCall ==
    /\ boost_input = [skills |-> <<>>, internship_skills |-> <<>>]
    /\ boost_output = [done |-> FALSE, normalized_boost |-> Frac(0, 1)]

NoFile == [build |-> 0, state |-> "absent"]

NoBuild ==
    /\ dataset = "ok"
    /\ build_pc = "idle"
    /\ build_version = 0
    /\ index_file = NoFile
    /\ map_file = NoFile

NoAnalyticsEnv ==
    [configure |-> "ok", build |-> "ok", generate |-> "text", json |-> "dict",
     roadmap |-> <<>>, search |-> <<>>]

NoAnalyticsYet ==
    /\ analytics_request = [id |-> "", skills |-> <<>>]
    /\ analytics_response = [status |-> 0, error |-> "", roadmap |-> <<>>]

Init ==
    /\ \E n \in 0..MaxCorpus : \E stale \in BOOLEAN :
           /\ stale => n > 0
           /\ EngineLoaded(n, stale)
    /\ embed_profile \in [QueryTexts -> ProfileNames]
    /\ tie_order \in {"asc", "desc"}
    /\ NoRecommendYet
    /\ NoBoostCall
    /\ NoBuild
    /\ NoAnalyticsYet
    /\ analytics_env = NoAnalyticsEnv

Next ==
    \/ \E r \in RequestInputs : RecommendGet(r.skills, r.location, r.interest)
    \/ \E key \in DOMAIN cache : CacheExpire(key)

Spec == Init /\ [][Next]_vars

-----------------------------------------------------------------------------
(* Properties of the recommend request, checked under Spec *)

Handled == response.status # 0

ValidRequest == Handled /\ ~MissingParameter(request.skills, request.location)

\* every position of the index maps to a row of the Corpus Store
InSync ==
    \A p \in DOMAIN index_to_id_map : index_to_id_map[p] \in DOMAIN all_internships_map

Stale == ~InSync

CorpusSize == Cardinality(DOMAIN index_to_id_map)

\* the candidates in the order the vector index returned them
RequestHits == ValidHits(IndexSearch(StudentText(request.skills, request.interest), K))

\* what a computation from scratch returns for the last request
FreshResult == find_recommendations(request.skills, request.location, request.interest)

ClearsThreshold(rec) == FracGE(rec.final_score, MINIMUM_SCORE_THRESHOLD)

\* location equality after trimming and lowercasing both strings
LocationMatchesTrimBoth(stored, location) ==
    strip(lower(stored)) = strip(lower(location))

\* C1: for every recommend request with valid skills and location the result
\* is chosen by the three-tier policy: up to 5 location-matching candidates
\* that clear 0.55 (with the in-location message) if there is one; else up to
\* 3 candidates from anywhere that clear it (with the no-in-location
\* message) if there is one; else the top 3 of the global sorted list (with
\* the closest-available message).
C1_ThreeTierPolicy ==
    (ValidRequest /\ response.status = 200) =>
        LET global      == FreshResult.global
            in_location == SelectSeq(global, LAMBDA rec :
                               LocationMatchesTrimBoth(rec.internship.Locations,
                                                       request.location))
            good_in     == SelectSeq(in_location, ClearsThreshold)
            good_global == SelectSeq(global, ClearsThreshold)
            body        == response.body
        IN  IF good_in # <<>>
            THEN /\ body.message[1] = "Top matches in your preferred location: "
                 /\ body.message[2] = request.location
                 /\ body.recommendations = Take(good_in, 5)
            ELSE IF good_global # <<>>
            THEN /\ body.message[1] = "No ideal matches found in {location}. Here are the best matches from other locations:"
                 /\ body.message[2] = request.location
                 /\ body.recommendations = Take(good_global, 3)
            ELSE /\ body.message[1] = "No ideal matches were found anywhere. Here are the top {FALLBACK_COUNT} closest skill matches from all locations:"
                 /\ body.recommendations = Take(global, 3)

\* C2: for a non-empty corpus (also one smaller than K, whose missing hits
\* come back as position -1) and a query with non-empty skills and location,
\* the recommendation list returned to the caller is non-empty.
C2_NonEmptyResult ==
    (ValidRequest /\ CorpusSize > 0 /\ InSync) =>
        /\ response.status = 200
        /\ response.body.recommendations # <<>>

\* a request answered from the last tier, by a corpus smaller than K
C2_Witness ==
    /\ ValidRequest /\ InSync
    /\ CorpusSize > 0 /\ CorpusSize < K
    /\ \E i \in 1..K : IndexSearch(StudentText(request.skills, request.interest), K)[i].idx = -1
    /\ response.status = 200
    /\ response.body.message[2] = <<>>
    /\ response.body.recommendations # <<>>

\* C3: a candidate is in the in-location list exactly when its stored
\* location and the requested location are equal after trimming surrounding
\* whitespace and lowercasing both.
C3_LocationFilterTrimsBoth ==
    (engine_called /\ ~engine_result.raised) =>
        engine_result.in_location =
            SelectSeq(engine_result.global, LAMBDA rec :
                LocationMatchesTrimBoth(rec.internship.Locations, request.location))

\* C5: the response to a request (skills, location, interest) is the
\* response a fresh computation for exactly that tuple produces: requests
\* with different tuples never read each other's cached entry.
C5_CacheKeyedByExactTuple ==
    (ValidRequest /\ response.status = 200) =>
        response.body = SelectResults(FreshResult.in_location, FreshResult.global,
                                      request.location)

\* C7: when the vector index returns a position whose identifier is absent
\* from the Corpus Store, the query fails with an internal error: no
\* candidate is dropped and no normal result is returned or cached.
C7_StaleIdReported ==
    (engine_called /\
     \E i \in 1..Len(RequestHits) :
         index_to_id_map[RequestHits[i].idx] \notin DOMAIN all_internships_map) =>
        /\ engine_result.raised
        /\ response.status = 500
        /\ ~cache_written
        /\ cache = << >>

\* the engine ran a query against an index with an identifier the corpus lacks
C7_Witness ==
    /\ engine_called
    /\ Stale
    /\ Len(RequestHits) > 1
    /\ response.status = 500

\* rank of the candidate with this id in hits, the order the index returned
HitRank(hits, id) ==
    CHOOSE i \in 1..Len(hits) : index_to_id_map[hits[i].idx] = id

PositionOf(id) == CHOOSE p \in DOMAIN index_to_id_map : index_to_id_map[p] = id

\* C9: the global list find_recommendations returns holds every candidate,
\* sorted by final_score descending, candidates of equal final_score in the
\* order in which the vector index returned them.
C9_SortedDescendingStable ==
    (engine_called /\ ~engine_result.raised) =>
        \A hits \in {RequestHits} :
            LET global == engine_result.global
            IN  /\ Len(global) = Len(hits)
                /\ \A i, j \in 1..Len(global) :
                       i < j =>
                           /\ FracGE(global[i].final_score, global[j].final_score)
                           /\ global[i].final_score = global[j].final_score =>
                                  HitRank(hits, global[i].internship.id)
                                      < HitRank(hits, global[j].internship.id)

\* a list with two candidates of equal score that the index returned in
\* descending position order, and with a strict inequality as well
C9_Witness ==
    /\ engine_called /\ ~engine_result.raised
    /\ LET global == engine_result.global
       IN  /\ \E i, j \in 1..Len(global) :
                  /\ i < j
                  /\ global[i].final_score = global[j].final_score
                  /\ HitRank(RequestHits, global[i].internship.id)
                         < HitRank(RequestHits, global[j].internship.id)
                  /\ PositionOf(global[i].internship.id) > PositionOf(global[j].internship.id)
           /\ \E i, j \in 1..Len(global) :
                  FracGT(global[i].final_score, global[j].final_score)

\* C10: a recommend request whose skills or location is empty or missing is
\* rejected with status 400 and an error message, unlike an internal failure
\* (500); the engine is not invoked and the cache neither read nor written.
C10_MissingParameterRejected ==
    (Handled /\ (request.skills = <<>> \/ request.location = <<>>)) =>
        /\ response.status = 400
        /\ response.body = [error |-> "Please provide both 'skills' and 'location' parameters."]
        /\ ~engine_called
        /\ ~cache_read
        /\ ~cache_written

\* a request without location rejected while the cache holds entries
C10_Witness ==
    /\ Handled
    /\ request.skills # <<>> /\ request.location = <<>>
    /\ response.status = 400
    /\ cache # << >>

-----------------------------------------------------------------------------
(* The skill boost as a function of the two skills strings *)

MaxSkillsLen == 3

StringsOver(alphabet, n) == UNION {[1..m -> alphabet] : m \in 0..n}

UserSkillsInputs == StringsOver({"a", "B", ",", " "}, MaxSkillsLen)

InternshipSkillsInputs == StringsOver({"A", "b", ","}, MaxSkillsLen)

ComputeBoost ==
    /\ ~boost_output.done
    /\ boost_output' =
           [done             |-> TRUE,
            normalized_boost |-> NormalizedBoost(boost_input.skills,
                                                 boost_input.internship_skills)]
    /\ UNCHANGED <<boost_input, recVars, buildVars, analyticsVars>>

InitBoost ==
    /\ boost_input \in [skills : UserSkillsInputs, internship_skills : InternshipSkillsInputs]
    /\ boost_output = [done |-> FALSE, normalized_boost |-> Frac(0, 1)]
    /\ EngineLoaded(0, FALSE)
    /\ embed_profile = << >>
    /\ tie_order = "asc"
    /\ NoRecommendYet
    /\ NoBuild
    /\ NoAnalyticsYet
    /\ analytics_env = NoAnalyticsEnv

NextBoost == ComputeBoost

SpecBoost == InitBoost /\ [][NextBoost]_vars

\* the user's skill tokens, as the specification describes them: the
\* comma-separated pieces, trimmed and lowercased
SkillTokens(skills) ==
    LET parts == split(skills, ",")
    IN  {lower(strip(parts[i])) : i \in 1..Len(parts)}

\* C4: normalized_boost is in [0, 1], and it is 0 when the user provides no
\* skills (an empty or whitespace-only string, or only empty tokens) or when
\* none of the user's skill tokens is a substring of the internship's
\* lowercased skills text.
C4_BoostRangeAndZero ==
    boost_output.done =>
        LET boost    == boost_output.normalized_boost
            tokens   == SkillTokens(boost_input.skills)
            text     == lower(boost_input.internship_skills)
            noSkills == tokens \subseteq {<<>>}
            noneIn   == \A t \in tokens : ~contains(t, text)
        IN  /\ FracGE(boost, Frac(0, 1))
            /\ FracGE(Frac(1, 1), boost)
            /\ (noSkills \/ noneIn) => boost = Frac(0, 1)

-----------------------------------------------------------------------------
(* create_faiss_index.py: the build script and the two artifact files *)

MaxBuilds == 3

Datasets == {"ok", "empty", "malformed"}

\* the script is started on the dataset found in internships.csv
StartBuild(ds) ==
    /\ build_pc \in {"idle", "done", "aborted"}
    /\ build_version < MaxBuilds
    /\ build_version' = build_version + 1
    /\ dataset' = ds
    /\ build_pc' = "encode"
    /\ UNCHANGED <<index_file, map_file, recVars, boostVars, analyticsVars>>

\* rows are read and encoded; a row lacking columns is read with None for
\* them and encoded all the same; with no rows all_embeddings.shape[1] raises
EncodeRows ==
    /\ build_pc = "encode"
    /\ build_pc' = IF dataset = "empty" THEN "aborted" ELSE "write_index"
    /\ UNCHANGED <<dataset, build_version, index_file, map_file,
                   recVars, boostVars, analyticsVars>>

\* faiss.write_index opens internships.faiss itself for writing
WriteIndexOpen ==
    /\ build_pc = "write_index"
    /\ index_file' = [build |-> build_version, state |-> "partial"]
    /\ build_pc' = "writing_index"
    /\ UNCHANGED <<dataset, build_version, map_file, recVars, boostVars, analyticsVars>>

WriteIndexFinish ==
    /\ build_pc = "writing_index"
    /\ index_file' = [build |-> build_version, state |-> "complete"]
    /\ build_pc' = "open_map"
    /\ UNCHANGED <<dataset, build_version, map_file, recVars, boostVars, analyticsVars>>

\* open(index_to_id.pkl, 'wb') truncates the file
OpenMapFile ==
    /\ build_pc = "open_map"
    /\ map_file' = [build |-> build_version, state |-> "partial"]
    /\ build_pc' = "dump_map"
    /\ UNCHANGED <<dataset, build_version, index_file, recVars, boostVars, analyticsVars>>

\* pickle.dump and the close of the file
DumpMap ==
    /\ build_pc = "dump_map"
    /\ map_file' = [build |-> build_version, state |-> "complete"]
    /\ build_pc' = "done"
    /\ UNCHANGED <<dataset, build_version, index_file, recVars, boostVars, analyticsVars>>

\* a statement raises (the model or the CSV cannot be loaded, the disk is
\* full) or the process is killed: nothing in the script catches or cleans up
AbortBuild ==
    /\ build_pc \in {"encode", "write_index", "writing_index", "open_map", "dump_map"}
    /\ build_pc' = "aborted"
    /\ UNCHANGED <<dataset, build_version, index_file, map_file,
                   recVars, boostVars, analyticsVars>>

InitBuild ==
    /\ NoBuild
    /\ EngineLoaded(0, FALSE)
    /\ embed_profile = << >>
    /\ tie_order = "asc"
    /\ NoRecommendYet
    /\ NoBoostCall
    /\ NoAnalyticsYet
    /\ analytics_env = NoAnalyticsEnv

NextBuild ==
    \/ \E ds \in Datasets : StartBuild(ds)
    \/ EncodeRows
    \/ WriteIndexOpen
    \/ WriteIndexFinish
    \/ OpenMapFile
    \/ DumpMap
    \/ AbortBuild

SpecBuild == InitBuild /\ [][NextBuild]_vars

\* C6: when a build run has aborted, the index file and the map file on disk
\* are both the previous complete pair or both the new complete pair: never
\* files of two different builds, never a half-written file.
C6_NoPartialOrMismatchedPair ==
    build_pc = "aborted" =>
        /\ index_file.state # "partial"
        /\ map_file.state # "partial"
        /\ index_file.build = map_file.build

-----------------------------------------------------------------------------
(* get_analytics_for_internship and InternshipAnalyticsView.get *)

MaxRoadmap == 2

\* how the external services behave while the process runs:
\*   configure  genai.configure(...)
\*   build      build("youtube", "v3", ...), the video search client
\*   generate   model.generate_content(prompt): raises, or a response with
\*              .text, with .parts only, or with neither
\*   json       the generated text: no JSON, JSON that is no object, an
\*              object without "lacking_skills_roadmap", or a full object
\*   roadmap    per entry of lacking_skills_roadmap, whether it names a skill
\*   search     per entry, whether the video search for it succeeds
AnalyticsEnvs ==
    UNION {[configure : {"ok", "raise"},
            build     : {"ok", "raise"},
            generate  : {"raise", "text", "parts", "neither"},
            json      : {"invalid", "not_dict", "dict_without_roadmap", "dict"},
            roadmap   : [1..n -> {"named", "unnamed"}],
            search    : [1..n -> {"ok", "raise"}]] : n \in 0..MaxRoadmap}

AnalyticsError(message) == [error |-> message, roadmap |-> <<>>]

\* step 6: the loop over the roadmap entries inside its own try/except: an
\* entry gets its youtube_playlists unless it names no skill or a search
\* raised at it or before it
AugmentWithVideos(roadmap, search) ==
    [i \in 1..Len(roadmap) |->
        [skill_name        |-> roadmap[i],
         youtube_playlists |->
             /\ roadmap[i] = "named"
             /\ \A j \in 1..i : roadmap[j] = "named" => search[j] = "ok"]]

get_analytics_for_internship(env) ==
    IF env.configure = "raise" \/ env.build = "raise" \/ env.generate = "raise"
    THEN AnalyticsError("Failed to generate analytics: {e}")
    ELSE IF env.generate = "neither"
    THEN AnalyticsError("Invalid response format from Gemini API")
    ELSE IF env.json = "invalid"
    THEN AnalyticsError("Failed to parse Gemini response as JSON: {json_error}")
    ELSE IF env.json = "not_dict"
    THEN AnalyticsError("Invalid response structure from Gemini API")
    ELSE [error   |-> "",
          roadmap |-> IF env.json = "dict_without_roadmap" THEN <<>>
                      ELSE AugmentWithVideos(env.roadmap, env.search)]

AnalyticsGet(internship_id, user_skills) ==
    /\ analytics_request' = [id |-> internship_id, skills |-> user_skills]
    /\ analytics_response' =
           IF internship_id = "" \/ user_skills = <<>>
           THEN [status |-> 400, error |-> "Internship ID and user skills are required.",
                 roadmap |-> <<>>]
           ELSE IF internship_id \notin DOMAIN all_internships_map
           THEN [status |-> 404, error |-> "Internship not found.", roadmap |-> <<>>]
           ELSE LET analytics_data == get_analytics_for_internship(analytics_env)
                IN  IF analytics_data.error # ""
                    THEN [status |-> 500, error |-> analytics_data.error, roadmap |-> <<>>]
                    ELSE [status |-> 200, error |-> "", roadmap |-> analytics_data.roadmap]
    /\ UNCHANGED <<analytics_env, recVars, boostVars, buildVars>>

InitAnalytics ==
    /\ NoAnalyticsYet
    /\ analytics_env \in AnalyticsEnvs
    /\ EngineLoaded(2, FALSE)
    /\ embed_profile = << >>
    /\ tie_order = "asc"
    /\ NoRecommendYet
    /\ NoBoostCall
    /\ NoBuild

NextAnalytics ==
    \E internship_id \in {"", "1", "9"} : \E user_skills \in {<<>>, <<"a">>} :
        AnalyticsGet(internship_id, user_skills)

SpecAnalytics == InitAnalytics /\ [][NextAnalytics]_vars

\* the request names a known internship and gives skills
AnalyticsServed ==
    /\ analytics_response.status # 0
    /\ analytics_request.id \in DOMAIN all_internships_map
    /\ analytics_request.skills # <<>>

CoreExplanationFails ==
    \/ analytics_env.configure = "raise"
    \/ analytics_env.generate \in {"raise", "neither"}
    \/ analytics_env.json \in {"invalid", "not_dict"}

EnrichmentFails ==
    \/ analytics_env.build = "raise"
    \/ \E i \in 1..Len(analytics_env.search) : analytics_env.search[i] = "raise"

\* C8: a failure of the enrichment (video search) step, from setting up its
\* client through any per-skill search, never fails the request: the
\* explanation is returned without an error; a failure in generating or
\* parsing the core explanation yields an error result, a failed request.
C8_EnrichmentFailureNeverFailsRequest ==
    AnalyticsServed =>
        /\ (EnrichmentFails /\ ~CoreExplanationFails) =>
               (analytics_response.status = 200 /\ analytics_response.error = "")
        /\ CoreExplanationFails =>
               (analytics_response.status = 500 /\ analytics_response.error # "")

=============================================================================
